---- MODULE Spec2Model ----
(***************************************************************************)
(* Board bring-up sequencer of the CYSBSYSKIT-01 BSP (cybsp.c, cybsp_init) *)
(* together with the two collaborators whose state it changes: the HAL     *)
(* resource registry and the PDL power-mode callback chain.                *)
(*                                                                         *)
(* cybsp_init is one action.  It is composed, in source order, of one      *)
(* operator per block of the function; each operator maps a run record     *)
(* (result, trace of the calls made, registry, chain, lock count, ...) to  *)
(* the run record after the block.  The return values of the library calls *)
(* whose code is outside the repository (cyhal_hwmgr_init,                 *)
(* cyhal_syspm_init, Cy_SysPm_RegisterCallback) are inputs of the action.  *)
(***************************************************************************)
EXTENDS Integers, Sequences, FiniteSets

\* ---------------------------------------------------------------- bounds
MaxRuns == 2        \* calls of cybsp_init in one behaviour
MaxOthers == 2      \* deep-sleep callbacks registered by the application

\* ------------------------------------------------------------- constants
CY_CFG_PWR_VDDA_MV == 3300

CYBSP_SYSCLK_PM_CALLBACK_ORDER_low == 255 - 1
CYBSP_SYSCLK_PM_CALLBACK_ORDER == 255

\* values of the 8-bit order field used by the application's callbacks
OtherOrders == {254, 255}

CY_RSLT_SUCCESS == "CY_RSLT_SUCCESS"
HWMGR_INIT_ERROR == "HWMGR_INIT_ERROR"
CYHAL_SYSPM_RSLT_INIT_ERROR == "CYHAL_SYSPM_RSLT_INIT_ERROR"
CYBSP_RSLT_ERR_SYSCLK_PM_CALLBACK == "CYBSP_RSLT_ERR_SYSCLK_PM_CALLBACK"
CYHAL_HWMGR_RSLT_ERR_INUSE == "CYHAL_HWMGR_RSLT_ERR_INUSE"
Void == "void"

\* the two 16-bit peripheral clock dividers cybsp_init reserves
clock1 == [type |-> "CYHAL_RSC_CLOCK", block_num |-> "CYHAL_CLOCK_BLOCK_PERIPHERAL_16BIT", channel_num |-> 0]
clock2 == [type |-> "CYHAL_RSC_CLOCK", block_num |-> "CYHAL_CLOCK_BLOCK_PERIPHERAL_16BIT", channel_num |-> 1]
Resources == {clock1, clock2}

VARIABLES
  CY_USING_HAL,              \* build option: HAL (resource tracking) in use
  CY_USING_HAL_LITE,         \* build option: HAL-lite in use
  CY_CFG_PWR_SYS_IDLE_MODE,  \* build option: defined => no deep-sleep lock
  MBED,                      \* build option __MBED__: the lock is taken through the Mbed sleep manager
  custom_power_callback,     \* the application says it registers its own callback
  registry,                  \* resource -> "free" | "app" | "bsp"
  chain,                     \* deep-sleep callback chain, in invocation order on entry
  lockCount,                 \* deep-sleep lock count
  vdda,                      \* supply voltage told to the HAL, 0 = never set
  configured,                \* init_cycfg_all has been applied
  runs,                      \* completed calls of cybsp_init
  result,                    \* value returned by the last call of cybsp_init
  trace,                     \* calls made by the last call of cybsp_init, in order
  notified                   \* last notification of the chain as it stands, and the callbacks it invoked

vars == <<CY_USING_HAL, CY_USING_HAL_LITE, CY_CFG_PWR_SYS_IDLE_MODE, MBED, custom_power_callback,
          registry, chain, lockCount, vdda, configured, runs, result, trace, notified>>

options == <<CY_USING_HAL, CY_USING_HAL_LITE, CY_CFG_PWR_SYS_IDLE_MODE, MBED, custom_power_callback>>

\* ------------------------------------------------------ resource registry
cyhal_hwmgr_reserve(reg, r, who) ==
  IF reg[r] # "free"
  THEN [rslt |-> CYHAL_HWMGR_RSLT_ERR_INUSE, reg |-> reg]
  ELSE [rslt |-> CY_RSLT_SUCCESS, reg |-> [reg EXCEPT ![r] = who]]

\* ---------------------------------------------------------- callback chain
\* insertion by order; callbacks of equal order stay in registration order
InsertByOrder(c, e) ==
  LET k == Cardinality({i \in 1..Len(c) : c[i].order <= e.order})
  IN SubSeq(c, 1, k) \o <<e>> \o SubSeq(c, k + 1, Len(c))

\* ok is the library's verdict on the registration
Cy_SysPm_RegisterCallback(c, handler, ok) ==
  IF ok
  THEN [ret |-> TRUE,
        chain |-> InsertByOrder(c, [cb |-> handler.cb, order |-> handler.order, seq |-> Len(c) + 1])]
  ELSE [ret |-> FALSE, chain |-> c]

Reverse(s) == [i \in 1..Len(s) |-> s[Len(s) + 1 - i]]

\* callbacks invoked by a notification: chain order on entry, reverse on exit.
\* refuser is the position in the chain of the callback that refuses the
\* entry (0: none does); the callbacks after it are not invoked.
InvokedOn(c, transition, refuser) ==
  IF transition = "enter"
  THEN IF refuser = 0 THEN c ELSE SubSeq(c, 1, refuser)
  ELSE Reverse(c)

\* callbacks told of the complementary transition after a refused entry:
\* those notified before the refusing one, in reverse order
RolledBack(c, transition, refuser) ==
  IF transition = "enter" /\ refuser > 0 THEN Reverse(SubSeq(c, 1, refuser - 1)) ELSE <<>>

\* ------------------------------------------------------------- cybsp_init
Call(st, name, arg, rslt) ==
  [st EXCEPT !.trace = Append(@, [call |-> name, arg |-> arg, rslt |-> rslt])]

cybsp_sysclk_pm_callback ==
  [cb |-> "sysclk", type |-> "CY_SYSPM_DEEPSLEEP", order |-> CYBSP_SYSCLK_PM_CALLBACK_ORDER]

cybsp_register_sysclk_pm_callback(c, ok) ==
  LET r == Cy_SysPm_RegisterCallback(c, cybsp_sysclk_pm_callback, ok)
  IN [rslt |-> IF ~r.ret THEN CYBSP_RSLT_ERR_SYSCLK_PM_CALLBACK ELSE CY_RSLT_SUCCESS,
      chain |-> r.chain]

\* resource-manager and power-management init
HwInit(st, hwOk, pmOk) ==
  IF CY_USING_HAL
  THEN LET r1 == IF hwOk THEN CY_RSLT_SUCCESS ELSE HWMGR_INIT_ERROR
           s1 == [Call(st, "cyhal_hwmgr_init", "", r1) EXCEPT !.result = r1]
           r2 == IF pmOk THEN CY_RSLT_SUCCESS ELSE CYHAL_SYSPM_RSLT_INIT_ERROR
       IN IF CY_RSLT_SUCCESS = s1.result
          THEN [Call(s1, "cyhal_syspm_init", "", r2) EXCEPT !.result = r2]
          ELSE s1
  ELSE [st EXCEPT !.result = CY_RSLT_SUCCESS]

\* supply voltage
SetSupplyVoltage(st) ==
  IF CY_RSLT_SUCCESS = st.result
  THEN IF CY_USING_HAL
       THEN [Call(st, "cyhal_syspm_set_supply_voltage", "", Void) EXCEPT !.vdda = CY_CFG_PWR_VDDA_MV]
       ELSE IF CY_USING_HAL_LITE
            THEN [Call(st, "cyhal_system_set_supply_voltage", "", Void) EXCEPT !.vdda = CY_CFG_PWR_VDDA_MV]
            ELSE st
  ELSE st

\* static configuration
init_cycfg_all(cfg) == TRUE

ApplyConfig_onlyOnSuccess(st) ==
  IF CY_RSLT_SUCCESS = st.result
  THEN [Call(st, "init_cycfg_all", "", Void) EXCEPT !.configured = init_cycfg_all(@)]
  ELSE st
ApplyConfig(st) ==
  [Call(st, "init_cycfg_all", "", Void) EXCEPT !.configured = init_cycfg_all(@)]

\* clock power-mode callback
RegisterStep_always(st, regOk) ==
  LET r == cybsp_register_sysclk_pm_callback(st.chain, regOk)
  IN [Call(st, "cybsp_register_sysclk_pm_callback", "", r.rslt)
        EXCEPT !.result = r.rslt, !.chain = r.chain]
RegisterStep_honourCustom(st, regOk) ==
  IF CY_RSLT_SUCCESS = st.result /\ ~custom_power_callback
  THEN RegisterStep_always(st, regOk)
  ELSE st
RegisterStep(st, regOk) ==
  IF CY_RSLT_SUCCESS = st.result
  THEN LET r == cybsp_register_sysclk_pm_callback(st.chain, regOk)
       IN [Call(st, "cybsp_register_sysclk_pm_callback", "", r.rslt)
             EXCEPT !.result = r.rslt, !.chain = r.chain]
  ELSE st

\* deep-sleep lock: sleep_manager_lock_deep_sleep under __MBED__,
\* cyhal_syspm_lock_deepsleep otherwise
LockCall == IF MBED THEN "sleep_manager_lock_deep_sleep" ELSE "cyhal_syspm_lock_deepsleep"

LockStep_onlyOnSuccess(st) ==
  IF CY_USING_HAL /\ ~CY_CFG_PWR_SYS_IDLE_MODE /\ CY_RSLT_SUCCESS = st.result
  THEN [Call(st, LockCall, "", Void) EXCEPT !.lock = @ + 1]
  ELSE st
LockStep_both(st) ==
  IF CY_USING_HAL /\ ~CY_CFG_PWR_SYS_IDLE_MODE
  THEN [Call(Call(st, "sleep_manager_lock_deep_sleep", "", Void), "cyhal_syspm_lock_deepsleep", "", Void)
          EXCEPT !.lock = @ + 2]
  ELSE st
LockStep(st) ==
  IF CY_USING_HAL /\ ~CY_CFG_PWR_SYS_IDLE_MODE
  THEN [Call(st, LockCall, "", Void) EXCEPT !.lock = @ + 1]
  ELSE st

\* one guarded reservation
ReserveOne(st, r, name) ==
  LET x == cyhal_hwmgr_reserve(st.registry, r, "bsp")
  IN [Call(st, "cyhal_hwmgr_reserve", name, x.rslt)
        EXCEPT !.result = x.rslt, !.registry = x.reg]

\* reservation of the default clock dividers
ReserveStep_bestEffort(st) ==
  IF CY_USING_HAL
  THEN LET s1 == IF CY_RSLT_SUCCESS = st.result THEN ReserveOne(st, clock1, "clock1") ELSE st
           s2 == ReserveOne(s1, clock2, "clock2")
       IN IF CY_RSLT_SUCCESS = s1.result THEN s2 ELSE [s2 EXCEPT !.result = s1.result]
  ELSE st
ReserveStep_afterAnyRegistration(st) ==
  IF CY_USING_HAL
  THEN LET s0 == IF st.result = CYBSP_RSLT_ERR_SYSCLK_PM_CALLBACK
                 THEN [st EXCEPT !.result = CY_RSLT_SUCCESS] ELSE st
           s1 == IF CY_RSLT_SUCCESS = s0.result THEN ReserveOne(s0, clock1, "clock1") ELSE s0
           s2 == IF CY_RSLT_SUCCESS = s1.result THEN ReserveOne(s1, clock2, "clock2") ELSE s1
       IN IF st.result = CYBSP_RSLT_ERR_SYSCLK_PM_CALLBACK
          THEN [s2 EXCEPT !.result = CYBSP_RSLT_ERR_SYSCLK_PM_CALLBACK] ELSE s2
  ELSE st
ReserveStep_ignoringOption(st) ==
  LET s1 == IF CY_RSLT_SUCCESS = st.result THEN ReserveOne(st, clock1, "clock1") ELSE st
  IN IF CY_RSLT_SUCCESS = s1.result THEN ReserveOne(s1, clock2, "clock2") ELSE s1
ReserveStep_rollback(st) ==
  IF CY_USING_HAL
  THEN LET s1 == IF CY_RSLT_SUCCESS = st.result THEN ReserveOne(st, clock1, "clock1") ELSE st
           s2 == IF CY_RSLT_SUCCESS = s1.result THEN ReserveOne(s1, clock2, "clock2") ELSE s1
       IN IF CY_RSLT_SUCCESS = s1.result /\ CY_RSLT_SUCCESS # s2.result
          THEN [Call(s2, "cyhal_hwmgr_free", "clock1", Void) EXCEPT !.registry[clock1] = "free"]
          ELSE s2
  ELSE st
ReserveStep(st) ==
  IF CY_USING_HAL
  THEN LET s1 == IF CY_RSLT_SUCCESS = st.result THEN ReserveOne(st, clock1, "clock1") ELSE st
       IN IF CY_RSLT_SUCCESS = s1.result THEN ReserveOne(s1, clock2, "clock2") ELSE s1
  ELSE st

\* the whole function, in source order
cybsp_init_run_configFirst(st, hwOk, pmOk, regOk) ==
  ReserveStep(LockStep(RegisterStep(SetSupplyVoltage(ApplyConfig(HwInit(st, hwOk, pmOk))), regOk)))
cybsp_init_run(st, hwOk, pmOk, regOk) ==
  ReserveStep(LockStep(RegisterStep(ApplyConfig(SetSupplyVoltage(HwInit(st, hwOk, pmOk))), regOk)))

Entry ==
  [result |-> CY_RSLT_SUCCESS, trace |-> <<>>, registry |-> registry, chain |-> chain,
   lock |-> lockCount, vdda |-> vdda, configured |-> configured]

\* ---------------------------------------------------------------- actions
NoNotification == [transition |-> "none", refused |-> FALSE, invoked |-> <<>>, rolledBack |-> <<>>]

Init ==
  /\ CY_USING_HAL \in BOOLEAN
  /\ CY_USING_HAL_LITE \in BOOLEAN
  /\ CY_CFG_PWR_SYS_IDLE_MODE \in BOOLEAN
  /\ MBED \in BOOLEAN
  /\ custom_power_callback \in BOOLEAN
  /\ registry = [r \in Resources |-> "free"]
  /\ chain = <<>>
  /\ lockCount = 0
  /\ vdda = 0
  /\ configured = FALSE
  /\ runs = 0
  /\ result = CY_RSLT_SUCCESS
  /\ trace = <<>>
  /\ notified = NoNotification

cybsp_init ==
  /\ runs < MaxRuns
  /\ \E hwOk, pmOk, regOk \in BOOLEAN :
       LET s == cybsp_init_run(Entry, hwOk, pmOk, regOk)
       IN /\ result' = s.result
          /\ trace' = s.trace
          /\ registry' = s.registry
          /\ chain' = s.chain
          /\ lockCount' = s.lock
          /\ vdda' = s.vdda
          /\ configured' = s.configured
  /\ runs' = runs + 1
  /\ notified' = NoNotification
  /\ UNCHANGED options

\* the application reserves one of the dividers for itself
AppReserve ==
  /\ \E r \in Resources :
       LET x == cyhal_hwmgr_reserve(registry, r, "app")
       IN /\ x.rslt = CY_RSLT_SUCCESS
          /\ registry' = x.reg
  /\ UNCHANGED <<options, chain, lockCount, vdda, configured, runs, result, trace, notified>>

\* the application registers a deep-sleep callback of its own
AppRegister ==
  /\ Cardinality({i \in 1..Len(chain) : chain[i].cb = "app"}) < MaxOthers
  /\ \E o \in OtherOrders :
       chain' = Cy_SysPm_RegisterCallback(chain, [cb |-> "app", order |-> o], TRUE).chain
  /\ notified' = NoNotification
  /\ UNCHANGED <<options, registry, lockCount, vdda, configured, runs, result, trace>>

\* a deep-sleep transition notifies the chain; there is none while deep sleep
\* is locked.  An entry may be refused by one of the callbacks, which aborts
\* it and rolls back the ones before
Notify ==
  /\ chain # <<>>
  /\ lockCount = 0
  /\ \E t \in {"enter", "exit"} :
       \E refuser \in (IF t = "enter" THEN 0..Len(chain) ELSE {0}) :
         notified' = [transition |-> t,
                      refused |-> refuser > 0,
                      invoked |-> InvokedOn(chain, t, refuser),
                      rolledBack |-> RolledBack(chain, t, refuser)]
  /\ UNCHANGED <<options, registry, chain, lockCount, vdda, configured, runs, result, trace>>

Next == cybsp_init \/ AppReserve \/ AppRegister \/ Notify

Spec == Init /\ [][Next]_vars
\* ------------------------------------------------------------ observations
Done == runs > 0
Idx(name) == {i \in 1..Len(trace) : trace[i].call = name}
Called(name) == Idx(name) # {}
IdxArg(name, arg) == {i \in Idx(name) : trace[i].arg = arg}
Failed(e) == e.rslt \notin {CY_RSLT_SUCCESS, Void}
FailIdx == {i \in 1..Len(trace) : Failed(trace[i])}
FirstFail == CHOOSE i \in FailIdx : \A j \in FailIdx : i <= j
FailedCall(name) == \E i \in Idx(name) : Failed(trace[i])
FailedArg(name, arg) == \E i \in IdxArg(name, arg) : Failed(trace[i])
SysclkIdx == {i \in 1..Len(chain) : chain[i].cb = "sysclk"}
AppIdx == {i \in 1..Len(chain) : chain[i].cb = "app"}
LockExpected == CY_USING_HAL /\ ~CY_CFG_PWR_SYS_IDLE_MODE
LockIdx == Idx("cyhal_syspm_lock_deepsleep") \cup Idx("sleep_manager_lock_deep_sleep")
Locked == LockIdx # {}
\* the lock calls of the run are all to the lock function of the build
LockOfBuild == LockIdx = Idx(LockCall)

\* C1: the value returned by cybsp_init is the result of the first call, in
\* execution order, that failed, and it is success exactly when no executed
\* call failed.
C1_FirstFailureReturned ==
  Done => /\ (FailIdx # {} => result = trace[FirstFail].rslt)
          /\ (FailIdx = {} <=> result = CY_RSLT_SUCCESS)

C1_Witness ==
  /\ Done
  /\ FailedArg("cyhal_hwmgr_reserve", "clock2")
  /\ result = CYHAL_HWMGR_RSLT_ERR_INUSE

\* C2: every run of cybsp_init calls init_cycfg_all exactly once, whatever
\* the outcome of the steps before it, so a failed run has still applied the
\* configuration.
C2_ConfigAppliedOnce ==
  Done => /\ Cardinality(Idx("init_cycfg_all")) = 1
          /\ configured

C2_Witness ==
  /\ Done
  /\ result = HWMGR_INIT_ERROR
  /\ Called("init_cycfg_all")
  /\ configured

\* C3 as stated: when the callback was registered and the reservation of the
\* first divider fails, the reservation of the second is still attempted and
\* the first reservation failure is returned.
C3_Original ==
  (Done /\ FailedArg("cyhal_hwmgr_reserve", "clock1"))
    => /\ IdxArg("cyhal_hwmgr_reserve", "clock2") # {}
       /\ result = CYHAL_HWMGR_RSLT_ERR_INUSE

\* C3 amended: when the reservation of the first divider fails, the
\* reservation of the second is not attempted; the failed reservation is the
\* last call of the run and its failure is returned.
C3_SecondReservationSkipped ==
  (Done /\ FailedArg("cyhal_hwmgr_reserve", "clock1"))
    => /\ IdxArg("cyhal_hwmgr_reserve", "clock2") = {}
       /\ trace[Len(trace)].call = "cyhal_hwmgr_reserve"
       /\ trace[Len(trace)].arg = "clock1"
       /\ result = CYHAL_HWMGR_RSLT_ERR_INUSE

C3_Witness ==
  /\ Done
  /\ FailedArg("cyhal_hwmgr_reserve", "clock1")
  /\ ~FailedCall("cybsp_register_sysclk_pm_callback")
  /\ Called("cybsp_register_sysclk_pm_callback")
  /\ registry[clock2] = "free"

\* C4 as stated: when cyhal_hwmgr_init fails, nothing but the configuration
\* application runs afterwards (in particular deep sleep is not locked) and
\* the resource-manager failure is returned.
C4_Original ==
  (Done /\ FailedCall("cyhal_hwmgr_init"))
    => /\ ~Called("cyhal_syspm_init")
       /\ ~Called("cyhal_syspm_set_supply_voltage")
       /\ ~Called("cybsp_register_sysclk_pm_callback")
       /\ ~Locked
       /\ ~Called("cyhal_hwmgr_reserve")
       /\ Called("init_cycfg_all")
       /\ result = HWMGR_INIT_ERROR

\* C4 amended: when cyhal_hwmgr_init fails, power-management init, the supply
\* voltage, the callback registration and both reservations are skipped and
\* the resource-manager failure is returned; the configuration is still
\* applied and, unless CY_CFG_PWR_SYS_IDLE_MODE is defined, deep sleep is
\* still locked.
C4_HwmgrFailureSkipsAllButConfigAndLock ==
  (Done /\ FailedCall("cyhal_hwmgr_init"))
    => /\ ~Called("cyhal_syspm_init")
       /\ ~Called("cyhal_syspm_set_supply_voltage")
       /\ ~Called("cybsp_register_sysclk_pm_callback")
       /\ ~Called("cyhal_hwmgr_reserve")
       /\ Called("init_cycfg_all")
       /\ (Locked <=> ~CY_CFG_PWR_SYS_IDLE_MODE)
       /\ LockOfBuild
       /\ Len(trace) = (IF CY_CFG_PWR_SYS_IDLE_MODE THEN 2 ELSE 3)
       /\ result = HWMGR_INIT_ERROR

C4_Witness ==
  /\ Done
  /\ FailedCall("cyhal_hwmgr_init")
  /\ Locked
  /\ lockCount > 0

\* C5 as stated: when the registration of the clock callback fails, the
\* default reservations are still attempted and the registration failure is
\* returned.
C5_Original ==
  (Done /\ CY_USING_HAL /\ FailedCall("cybsp_register_sysclk_pm_callback"))
    => /\ Called("cyhal_hwmgr_reserve")
       /\ result = CYBSP_RSLT_ERR_SYSCLK_PM_CALLBACK

\* C5 amended: when the registration of the clock callback fails, no
\* reservation is attempted; only the unconditional deep-sleep lock still
\* runs, and the registration failure is returned.
C5_RegistrationFailureSkipsReservations ==
  (Done /\ FailedCall("cybsp_register_sysclk_pm_callback"))
    => /\ ~Called("cyhal_hwmgr_reserve")
       /\ (Locked <=> LockExpected)
       /\ LockOfBuild
       /\ FailIdx = Idx("cybsp_register_sysclk_pm_callback")
       /\ result = CYBSP_RSLT_ERR_SYSCLK_PM_CALLBACK

C5_Witness ==
  /\ Done
  /\ CY_USING_HAL
  /\ FailedCall("cybsp_register_sysclk_pm_callback")
  /\ Locked
  /\ \A r \in Resources : registry[r] = "free"

\* C7 as stated: without CY_USING_HAL, cybsp_init makes no resource-manager
\* call, takes no lock, reserves nothing and returns success.
C7_Original ==
  (Done /\ ~CY_USING_HAL)
    => /\ ~Called("cyhal_hwmgr_init")
       /\ ~Locked
       /\ ~Called("cyhal_hwmgr_reserve")
       /\ result = CY_RSLT_SUCCESS

\* C7 amended: without CY_USING_HAL, cybsp_init makes no resource-manager
\* call, takes no lock, reserves nothing (no divider is ever held by the
\* BSP), and returns success when the callback registration succeeds, also
\* when both dividers are held by another owner; it returns
\* CYBSP_RSLT_ERR_SYSCLK_PM_CALLBACK when the registration fails.
C7_UntrackedRunTouchesNoResource ==
  (Done /\ ~CY_USING_HAL)
    => /\ ~Called("cyhal_hwmgr_init")
       /\ ~Called("cyhal_syspm_init")
       /\ ~Locked
       /\ ~Called("cyhal_hwmgr_reserve")
       /\ lockCount = 0
       /\ \A r \in Resources : registry[r] # "bsp"
       /\ result = (IF FailedCall("cybsp_register_sysclk_pm_callback")
                    THEN CYBSP_RSLT_ERR_SYSCLK_PM_CALLBACK ELSE CY_RSLT_SUCCESS)

C7_Witness ==
  /\ Done
  /\ ~CY_USING_HAL
  /\ \A r \in Resources : registry[r] = "app"
  /\ result = CY_RSLT_SUCCESS

\* the clock callback is among the callbacks a notification invoked
ClockNotified == \E i \in 1..Len(notified.invoked) : notified.invoked[i].cb = "sysclk"

\* C8: whatever the orders and registration times of the other callbacks
\* (ties in registration order), an entry notification that reaches the
\* clock callback invokes it last among the callbacks it notifies, and an
\* exit notification invokes it first.
C8_ClockCallbackLastInFirstOut ==
  ClockNotified
    => /\ notified.transition = "enter" => notified.invoked[Len(notified.invoked)].cb = "sysclk"
       /\ notified.transition = "exit" => notified.invoked[1].cb = "sysclk"

\* C9: once the clock callback is in the chain, its order is greater than or
\* equal to the order of every other registered callback, whether that one
\* was registered before or after it.
C9_ClockOrderIsMaximal ==
  \A k \in SysclkIdx : \A a \in AppIdx : chain[k].order >= chain[a].order

C9_Witness ==
  /\ SysclkIdx # {}
  /\ \E k \in SysclkIdx : \E a, b \in AppIdx :
       /\ chain[a].seq < chain[k].seq
       /\ chain[b].seq > chain[k].seq
       /\ chain[b].order = 255

\* C10 as stated: when the application has declared its own power-mode
\* callback registration, cybsp_init does not register the clock callback.
C10_Original ==
  (Done /\ custom_power_callback)
    => /\ ~Called("cybsp_register_sysclk_pm_callback")
       /\ SysclkIdx = {}

\* C10 amended: cybsp_init has no such option; also when the application has
\* declared its own registration, a run whose init steps succeeded registers
\* the clock callback, goes on to the reservation step only when that
\* registration succeeded, and returns the registration failure otherwise.
C10_RegistersDespiteCustomDeclaration ==
  (Done /\ custom_power_callback
        /\ ~FailedCall("cyhal_hwmgr_init") /\ ~FailedCall("cyhal_syspm_init"))
    => /\ Cardinality(Idx("cybsp_register_sysclk_pm_callback")) = 1
       /\ IF FailedCall("cybsp_register_sysclk_pm_callback")
          THEN /\ result = CYBSP_RSLT_ERR_SYSCLK_PM_CALLBACK
               /\ ~Called("cyhal_hwmgr_reserve")
          ELSE /\ SysclkIdx # {}
               /\ CY_USING_HAL => IdxArg("cyhal_hwmgr_reserve", "clock1") # {}

C10_Witness ==
  /\ Done
  /\ custom_power_callback
  /\ CY_USING_HAL
  /\ SysclkIdx # {}
  /\ result = CY_RSLT_SUCCESS
  /\ registry[clock1] = "bsp"
SupplyIdx == Idx("cyhal_syspm_set_supply_voltage") \cup Idx("cyhal_system_set_supply_voltage")

\* C11 as stated: in a run that sets the supply voltage, the call that sets
\* it comes after init_cycfg_all.
C11_Original ==
  Done => \A v \in SupplyIdx : \A c \in Idx("init_cycfg_all") : c < v

\* C11 amended: in a run that sets the supply voltage (3300 mV), the call
\* that sets it comes before init_cycfg_all, directly after the init steps.
C11_SupplyVoltageBeforeConfig ==
  Done => /\ \A v \in SupplyIdx : \A c \in Idx("init_cycfg_all") : v + 1 = c
          /\ SupplyIdx # {} => vdda = CY_CFG_PWR_VDDA_MV

C11_Witness ==
  /\ Done
  /\ CY_USING_HAL
  /\ Idx("cyhal_syspm_set_supply_voltage") # {}
  /\ Idx("init_cycfg_all") # {}
  /\ vdda = 3300

\* C12: cybsp_init never rolls back.  When the reservation of the second
\* divider fails, the first is still reserved by the BSP and the clock
\* callback is still registered; when the reservation of the first fails, the
\* callback is still registered; the lock taken by the run is kept; and the
\* BSP never holds the second divider without the first.
C12_NoRollback ==
  /\ (Done /\ FailedArg("cyhal_hwmgr_reserve", "clock2"))
       => /\ registry[clock1] = "bsp"
          /\ SysclkIdx # {}
          /\ lockCount > 0 <=> LockExpected
  /\ (Done /\ FailedArg("cyhal_hwmgr_reserve", "clock1"))
       => /\ SysclkIdx # {}
          /\ lockCount > 0 <=> LockExpected
  /\ registry[clock2] = "bsp" => registry[clock1] = "bsp"

C12_Witness ==
  /\ runs = 1
  /\ FailedArg("cyhal_hwmgr_reserve", "clock2")
  /\ registry[clock1] = "bsp"
  /\ registry[clock2] = "app"
  /\ SysclkIdx # {}

\* C13: with CY_USING_HAL defined and CY_CFG_PWR_SYS_IDLE_MODE not defined,
\* every run of cybsp_init locks deep sleep exactly once (through the lock
\* function of the build) and never unlocks it, whatever it returns: the
\* lock count grows by one per run.
C13_OneLockPerRun ==
  LockExpected
    => /\ lockCount = runs
       /\ Done => Cardinality(LockIdx) = 1 /\ LockOfBuild

C13_Witness ==
  /\ LockExpected
  /\ MBED
  /\ Idx("sleep_manager_lock_deep_sleep") # {}
  /\ runs = 2
  /\ lockCount = 2
  /\ result = CYHAL_HWMGR_RSLT_ERR_INUSE
====
